---- MODULE Spec2Model ----
(***************************************************************************)
(* Model of src/telegram_bot.py: the SessionStore of pending questions,    *)
(* the HTTP hook handlers that register questions, the Telegram message    *)
(* and callback handlers that resolve, aggregate and inject answers, the   *)
(* two tmux injection routines and the cleanup worker.                     *)
(*                                                                         *)
(* Python objects are modelled by a heap: `heap` is the sequence of all    *)
(* PendingQuestion objects ever constructed, an object reference is its    *)
(* index (None is 0).  `pending` is the insertion-ordered dict             *)
(* question_id -> object, `message_id_map` the dict message id ->          *)
(* question_id.  A handler's local variable `pending` is `tgt[t]`.         *)
(*                                                                         *)
(* Every SessionStore method runs under the store lock and is one atomic   *)
(* step.  Every external call (tmux subprocess, Telegram send) is a step   *)
(* of its own whose outcome the environment chooses.                       *)
(***************************************************************************)
EXTENDS Integers, Sequences, FiniteSets, TLC

\* ------------------------------------------------------------------ bounds
\* Number of PendingQuestion objects constructed in a run.
MaxReg == 2
\* The clock runs over 0..MaxTime (ticks).
MaxTime == 2
\* Clock ticks per millisecond: time.time() is finer than the millisecond
\* that int(time.time() * 1000) keeps.
TicksPerMs == 2
\* Telegram updates (messages and clicks) dispatched in a run; an update
\* dispatched while another handler is still running counts twice.
MaxUpdates == 3
\* Message id of the first message the bot sends in the chat.
FirstMessageId == 11

\* ------------------------------------------------------- program constants
\* QUESTION_TIMEOUT_SECONDS, read from the environment, in clock ticks.
QUESTION_TIMEOUT_SECONDS == 1
\* telebot.TeleBot(token) dispatches handlers on a pool of two worker threads.
NumThreads == 2

Handlers == 1..NumThreads

None == 0
NoRef == 0

\* ------------------------------------------------------------------ inputs
\* The hook requests: a /notify request is <<session_id, tmux_location,
\* tool_input.questions>>, questions being a list of sub-questions, each its
\* list of option labels; a /stop request is its tmux_location.
Q2 == << <<"A", "B">>, <<"C">> >>
NotifyRequests == {<<"s1", "main:0.1", Q2>>, <<"s1", "main:0.1", <<>> >>}
StopRequests == {"main:0.1", "unknown"}
Texts == {"yes", " yes "}
Refs == FirstMessageId..(FirstMessageId + MaxReg)
Indices == -1..2
CallbackData ==
    {[kind |-> "submit", q |-> 0, o |-> 0],
     [kind |-> "other", q |-> 0, o |-> 0],
     [kind |-> "bad", q |-> 0, o |-> 0]}
    \cup {[kind |-> "ans", q |-> q, o |-> o] : q \in Indices, o \in Indices}

\* ------------------------------------------------------------------- state
VARIABLES
    clock,            \* time.time(), in ticks
    heap,             \* all PendingQuestion objects, by reference
    pending,          \* SessionStore.pending: ordered dict, <<[k, v]>>
    message_id_map,   \* SessionStore._message_id_map
    http,             \* the HTTP server thread (serial): its request in progress
    updates,          \* the dispatch budget used so far
    pc,               \* per handler thread: position
    kind,             \* per handler thread: "msg" | "cb" | "-"
    tgt,              \* per handler thread: local `pending` (object reference)
    resp,             \* per handler thread: the responses handed to injection
    idx,              \* per handler thread: loop index i of the injection
    sent,             \* per handler thread: keystrokes delivered by its injection
    ok,               \* per handler thread: the injection's return value
    reply,            \* per handler thread: acknowledgment sent on the channel
    failed,           \* per handler thread (history): a tmux call of its
                      \* injection has failed
    unlocked          \* (history) the fields of PendingQuestion objects that
                      \* handlers have read or written outside store._lock

vars == <<clock, heap, pending, message_id_map, http, updates, pc, kind, tgt,
          resp, idx, sent, ok, reply, failed, unlocked>>
storeVars == <<heap, pending, message_id_map>>
localVars == <<pc, kind, tgt, resp, idx, sent, ok, reply, failed>>

\* ----------------------------------------------------------------- helpers
EmptyMap == [x \in {} |-> ""]

Put(m, k, v) == [x \in (DOMAIN m) \cup {k} |-> IF x = k THEN v ELSE m[x]]

Drop(m, k) == [x \in (DOMAIN m) \ {k} |-> m[x]]

\* str.strip() on the message texts of the model.
Strip(s) == IF s = " yes " THEN "yes" ELSE s

\* int(time.time() * 1000)
Millis(t) == t \div TicksPerMs

\* Python list indexing: valid for -len <= i < len, IndexError otherwise.
PyValid(s, i) == (-Len(s) <= i) /\ (i < Len(s))

PyAt(s, i) == IF i >= 0 THEN s[i + 1] ELSE s[Len(s) + i + 1]

\* Keystrokes: tmux send-keys -l <text>, and tmux send-keys Enter.
Lit(s) == <<"lit", s>>

Enter == <<"key", "Enter">>

\* ------------------------------------------------------- the ordered dict
DictKeys(d) == {d[i].k : i \in 1..Len(d)}

DictValues(d) == {d[i].v : i \in 1..Len(d)}

DictIndex(d, key) == CHOOSE i \in 1..Len(d) : d[i].k = key

\* dict.get(key): the value, or None
DictGet(d, key) == IF key \in DictKeys(d) THEN d[DictIndex(d, key)].v ELSE None

\* d[key] = v: an existing key keeps its position, a new key goes last
DictSet(d, key, v) ==
    IF key \in DictKeys(d)
    THEN [d EXCEPT ![DictIndex(d, key)] = [k |-> key, v |-> v]]
    ELSE Append(d, [k |-> key, v |-> v])

\* d.pop(key, None), the remaining items keeping their order
DictPop(d, key) == SelectSeq(d, LAMBDA e : e.k # key)

\* ----------------------------------------------------------- SessionStore
\* PendingQuestion(...): answered and answers take their dataclass defaults.
PendingQuestion(qid, session, loc, qs, ts, msg) ==
    [question_id |-> qid, session_id |-> session, tmux_location |-> loc,
     questions |-> qs, timestamp |-> ts, telegram_message_id |-> msg,
     answered |-> FALSE, answers |-> EmptyMap]

\* SessionStore.add_question, of the object with reference o
add_question(o, q) ==
    /\ pending' = DictSet(pending, q.question_id, o)
    /\ message_id_map' = Put(message_id_map, q.telegram_message_id, q.question_id)

\* SessionStore.get_by_message_id
get_by_message_id(msg_id) ==
    IF msg_id \in DOMAIN message_id_map
    THEN DictGet(pending, message_id_map[msg_id])
    ELSE None

\* max(unanswered, key=timestamp) over the dict's order: the first maximum.
RECURSIVE MaxBy(_, _, _)
MaxBy(d, i, best) ==
    IF i > Len(d) THEN best
    ELSE LET o == d[i].v IN
         IF heap[o].answered THEN MaxBy(d, i + 1, best)
         ELSE IF best = None \/ heap[o].timestamp > heap[best].timestamp
              THEN MaxBy(d, i + 1, o)
              ELSE MaxBy(d, i + 1, best)

\* Mutant of get_latest_unanswered: the filter on `answered` is forgotten.
RECURSIVE MaxAll(_, _, _)
MaxAll(d, i, best) ==
    IF i > Len(d) THEN best
    ELSE IF best = None \/ heap[d[i].v].timestamp > heap[best].timestamp
         THEN MaxAll(d, i + 1, d[i].v)
         ELSE MaxAll(d, i + 1, best)

get_latest_any == MaxAll(pending, 1, None)

\* Mutant of get_latest_unanswered: the oldest entry of the store, answered
\* or not.
get_oldest_entry == IF pending = <<>> THEN None ELSE pending[1].v

\* SessionStore.get_latest_unanswered
get_latest_unanswered == MaxBy(pending, 1, None)

\* Mutant of mark_answered: flips the flag instead of setting it.
mark_answered_toggle(question_id) ==
    IF question_id \in DictKeys(pending)
    THEN [heap EXCEPT ![DictGet(pending, question_id)].answered = ~@]
    ELSE heap

\* SessionStore.mark_answered: the heap after the call
mark_answered(question_id) ==
    IF question_id \in DictKeys(pending)
    THEN [heap EXCEPT ![DictGet(pending, question_id)].answered = TRUE]
    ELSE heap

\* Mutant of to_remove: answered entries are kept.
to_remove_unanswered(now, max_age_seconds) ==
    SelectSeq(pending, LAMBDA e : /\ (now - heap[e.v].timestamp) > max_age_seconds
                                  /\ ~heap[e.v].answered)

\* Mutant of to_remove: the age test is >= instead of >.
to_remove_at_age(now, max_age_seconds) ==
    SelectSeq(pending, LAMBDA e : (now - heap[e.v].timestamp) >= max_age_seconds)

\* cleanup_old's list to_remove at time `now`, in the dict's order.
to_remove(now, max_age_seconds) ==
    SelectSeq(pending, LAMBDA e : (now - heap[e.v].timestamp) > max_age_seconds)

\* cleanup_old's loop over to_remove[i..]: pop the entry, then its message id.
\* The result is <<pending, message_id_map>> after the loop.
RECURSIVE RemoveAll(_, _, _, _)
RemoveAll(rm, i, p, m) ==
    IF i > Len(rm) THEN <<p, m>>
    ELSE LET q == DictGet(p, rm[i].k) IN
         IF q # None
         THEN RemoveAll(rm, i + 1, DictPop(p, rm[i].k),
                        Drop(m, heap[q].telegram_message_id))
         ELSE RemoveAll(rm, i + 1, p, m)

\* SessionStore.cleanup_old
cleanup_old(max_age_seconds) ==
    LET after == RemoveAll(to_remove(clock, max_age_seconds), 1,
                           pending, message_id_map)
    IN /\ pending' = after[1]
       /\ message_id_map' = after[2]
       /\ UNCHANGED heap

\* -------------------------------------------------------------------- Init
Idle == [pc |-> "idle"]

Init ==
    /\ clock = 0
    /\ heap = <<>>
    /\ pending = <<>>
    /\ message_id_map = EmptyMap
    /\ http = Idle
    /\ updates = 0
    /\ pc = [t \in Handlers |-> "idle"]
    /\ kind = [t \in Handlers |-> "-"]
    /\ tgt = [t \in Handlers |-> None]
    /\ resp = [t \in Handlers |-> <<>>]
    /\ idx = [t \in Handlers |-> 0]
    /\ sent = [t \in Handlers |-> <<>>]
    /\ ok = [t \in Handlers |-> FALSE]
    /\ reply = [t \in Handlers |-> "-"]
    /\ failed = [t \in Handlers |-> FALSE]
    /\ unlocked = {}

\* ------------------------------------------------------------------- clock
Tick ==
    /\ clock < MaxTime
    /\ clock' = clock + 1
    /\ UNCHANGED <<storeVars, http, updates, localVars, unlocked>>

\* ------------------------------------------------------- HTTP hook handlers
\* _handle_notify up to the identifier: the request is read, an empty
\* question list is answered 400, otherwise question_id is generated.
handle_notify(session, loc, qs) ==
    /\ http.pc = "idle"
    /\ Len(heap) < MaxReg
    /\ IF qs = <<>>
       THEN UNCHANGED http
       ELSE http' = [pc |-> "send", question_id |-> <<session, Millis(clock)>>,
                     session_id |-> session, tmux_location |-> loc,
                     questions |-> qs]
    /\ UNCHANGED <<clock, storeVars, updates, localVars, unlocked>>

\* _handle_stop up to the identifier stop_id.
handle_stop(loc) ==
    /\ http.pc = "idle"
    /\ Len(heap) < MaxReg
    /\ http' = [pc |-> "send", question_id |-> <<"stop", Millis(clock)>>,
                session_id |-> "stop", tmux_location |-> loc,
                questions |-> <<>>]
    /\ UNCHANGED <<clock, storeVars, updates, localVars, unlocked>>

\* The rest of both handlers: bot.send_message, which raises or returns the
\* sent message, then store.add_question of a new PendingQuestion.
send_and_store(delivered) ==
    /\ http.pc = "send"
    /\ IF delivered
       THEN LET q == PendingQuestion(http.question_id, http.session_id,
                                     http.tmux_location, http.questions,
                                     clock, FirstMessageId + Len(heap))
            IN /\ heap' = Append(heap, q)
               /\ add_question(Len(heap) + 1, q)
       ELSE UNCHANGED storeVars
    /\ http' = Idle
    /\ UNCHANGED <<clock, updates, localVars, unlocked>>

\* ---------------------------------------------------------- cleanup worker
cleanup_worker ==
    /\ cleanup_old(QUESTION_TIMEOUT_SECONDS)
    /\ UNCHANGED <<clock, http, updates, localVars, unlocked>>

\* ------------------------------------------------------- handler threads
Set(f, t, v) == [f EXCEPT ![t] = v]

\* The worker pool hands an update to its first idle worker thread.
FreeWorker(t) == pc[t] = "idle" /\ \A u \in 1..(t - 1) : pc[u] # "idle"

\* The polling loop dispatches one more update.
Dispatch ==
    LET cost == IF \E u \in Handlers : pc[u] # "idle" THEN 2 ELSE 1 IN
    /\ updates + cost <= MaxUpdates
    /\ updates' = updates + cost

\* The handler acknowledges on the channel (bot.reply_to,
\* bot.answer_callback_query) and has nothing left to do.
Acknowledge(t, text) ==
    /\ pc' = Set(pc, t, "done")
    /\ reply' = Set(reply, t, text)
    /\ kind' = Set(kind, t, "-")
    /\ tgt' = Set(tgt, t, None)

\* Entry of inject_response_to_tmux and of inject_multiple_responses_to_tmux:
\* an empty or "unknown" location returns False before any tmux call.
enter_inject(t, loc, responses) ==
    /\ resp' = Set(resp, t, responses)
    /\ sent' = Set(sent, t, <<>>)
    /\ idx' = Set(idx, t, 0)
    /\ ok' = Set(ok, t, FALSE)
    /\ pc' = Set(pc, t, IF loc = "" \/ loc = "unknown" THEN "ret" ELSE "probe")

\* The injection returns `result` to the handler.
Return(t, result) ==
    /\ pc' = Set(pc, t, "ret")
    /\ ok' = Set(ok, t, result)

\* The fields handle_message reads from the object get_by_message_id
\* returned, after the store method has released the lock:
\* "if pending and not pending.answered".
reply_reads(ref) ==
    IF ref # NoRef /\ get_by_message_id(ref) # None THEN {"answered"} ELSE {}

\* Mutant of reply_target: the test of `answered` is forgotten.
reply_target_any(ref) == IF ref # NoRef THEN get_by_message_id(ref) ELSE None

\* handle_message's first resolution: the question a reply refers to, when
\* the message is a reply, the question is in the store and is not answered.
reply_target(ref) ==
    LET p == IF ref # NoRef THEN get_by_message_id(ref) ELSE None IN
    IF p # None /\ ~heap[p].answered THEN p ELSE None

\* Mutant of on_failure: the routine sends Enter before it returns False.
on_failure_send_enter(t) ==
    /\ Return(t, FALSE)
    /\ sent' = Set(sent, t, Append(sent[t], Enter))
    /\ UNCHANGED idx

\* The except clauses of both injection routines: a failed tmux call ends
\* the routine, which returns False.
on_failure(t) ==
    /\ Return(t, FALSE)
    /\ UNCHANGED <<sent, idx>>

\* Mutant of response_at: the loop sends its first response every time.
response_at_first(t) == resp[t][1]

\* The response the loop of the injection sends at its index i.
response_at(t) == resp[t][idx[t]]

\* Mutant of needs_final_enter: no final Enter after a single response.
needs_final_enter_multi(responses) == Len(responses) >= 2

\* inject_multiple_responses_to_tmux sends its final Enter after the loop,
\* whatever the number of responses.
needs_final_enter(responses) == TRUE

\* Mutant of handle_unauthorized: the message is treated as an answer to
\* the most recent unanswered question.
handle_unauthorized_answers(t) ==
    /\ pc' = Set(pc, t, "fallback")
    /\ kind' = Set(kind, t, "msg")
    /\ resp' = Set(resp, t, <<"yes">>)
    /\ UNCHANGED <<reply, tgt, sent, idx, ok>>

\* handle_unauthorized: a message from another chat is refused.
handle_unauthorized(t) ==
    /\ Acknowledge(t, "Unauthorized. This bot is private.")
    /\ UNCHANGED <<resp, sent, idx, ok>>

\* handle_message (authorized sender) and handle_unauthorized, up to the
\* first resolution: a reply is resolved by get_by_message_id.
handle_message(t, authorized, ref, text) ==
    /\ FreeWorker(t)
    /\ Dispatch
    /\ IF ~authorized
       THEN handle_unauthorized(t) /\ UNCHANGED unlocked
       ELSE LET p == reply_target(ref) IN
            /\ unlocked' = unlocked \cup reply_reads(ref)
            /\ kind' = Set(kind, t, "msg")
            /\ UNCHANGED reply
            /\ IF p # None
               THEN /\ tgt' = Set(tgt, t, p)
                    /\ enter_inject(t, heap[p].tmux_location, <<Strip(text)>>)
               ELSE /\ pc' = Set(pc, t, "fallback")
                    /\ resp' = Set(resp, t, <<Strip(text)>>)
                    /\ UNCHANGED <<tgt, sent, idx, ok>>
    /\ UNCHANGED <<clock, storeVars, http, failed>>

\* handle_message, second resolution: the most recent unanswered question.
message_fallback(t) ==
    /\ pc[t] = "fallback"
    /\ LET p == get_latest_unanswered IN
       IF p # None
       THEN /\ tgt' = Set(tgt, t, p)
            /\ enter_inject(t, heap[p].tmux_location, resp[t])
            /\ UNCHANGED <<reply, kind>>
       ELSE /\ Acknowledge(t, "No pending questions from Claude")
            /\ resp' = Set(resp, t, <<>>)
            /\ UNCHANGED <<sent, idx, ok>>
    /\ UNCHANGED <<clock, storeVars, http, updates, failed, unlocked>>

\* inject_response_to_tmux(location, response, send_enter=True) after its
\* entry, one tmux call per step; `success` is the call's outcome.
inject_response_to_tmux(t, success) ==
    /\ kind[t] = "msg"
    /\ pc[t] \in {"probe", "lit", "enter"}
    /\ IF ~success
       THEN on_failure(t)
       ELSE CASE pc[t] = "probe" ->
                 /\ pc' = Set(pc, t, "lit")
                 /\ idx' = Set(idx, t, 1)
                 /\ UNCHANGED <<sent, ok>>
              [] pc[t] = "lit" ->
                 /\ sent' = Set(sent, t, Append(sent[t], Lit(response_at(t))))
                 /\ pc' = Set(pc, t, "enter")
                 /\ UNCHANGED <<idx, ok>>
              [] pc[t] = "enter" ->
                 /\ sent' = Set(sent, t, Append(sent[t], Enter))
                 /\ Return(t, TRUE)
                 /\ UNCHANGED idx
    /\ failed' = Set(failed, t, failed[t] \/ ~success)
    /\ UNCHANGED <<clock, storeVars, http, updates, kind, tgt, resp, reply, unlocked>>

\* inject_multiple_responses_to_tmux(location, responses) after its entry.
inject_multiple_responses_to_tmux(t, success) ==
    /\ kind[t] = "cb"
    /\ pc[t] \in {"probe", "lit", "enter", "final"}
    /\ IF ~success
       THEN on_failure(t)
       ELSE CASE pc[t] = "probe" ->
                 /\ pc' = Set(pc, t, IF resp[t] # <<>> THEN "lit" ELSE "final")
                 /\ idx' = Set(idx, t, 1)
                 /\ UNCHANGED <<sent, ok>>
              [] pc[t] = "lit" ->
                 /\ sent' = Set(sent, t, Append(sent[t], Lit(response_at(t))))
                 /\ pc' = Set(pc, t, "enter")
                 /\ UNCHANGED <<idx, ok>>
              [] pc[t] = "enter" ->
                 /\ sent' = Set(sent, t, Append(sent[t], Enter))
                 /\ IF idx[t] < Len(resp[t])
                    THEN /\ pc' = Set(pc, t, "lit")
                         /\ idx' = Set(idx, t, idx[t] + 1)
                         /\ UNCHANGED ok
                    ELSE IF needs_final_enter(resp[t])
                    THEN /\ pc' = Set(pc, t, "final")
                         /\ UNCHANGED <<idx, ok>>
                    ELSE Return(t, TRUE) /\ UNCHANGED idx
              [] pc[t] = "final" ->
                 /\ sent' = Set(sent, t, Append(sent[t], Enter))
                 /\ Return(t, TRUE)
                 /\ UNCHANGED idx
    /\ failed' = Set(failed, t, failed[t] \/ ~success)
    /\ UNCHANGED <<clock, storeVars, http, updates, kind, tgt, resp, reply, unlocked>>

\* Mutant of after_inject: mark_answered whatever the return value.
after_inject_always(t) == mark_answered(heap[tgt[t]].question_id)

\* What a handler does with the injection's return value: mark_answered of
\* the target's question_id on True, nothing on False.
after_inject(t) == IF ok[t] THEN mark_answered(heap[tgt[t]].question_id) ELSE heap

\* handle_message and handle_callback after the injection returned.  The
\* handler's locals are dead from here on and are cleared.
handler_finish(t) ==
    /\ pc[t] = "ret"
    /\ heap' = after_inject(t)
    /\ Acknowledge(t, IF ok[t]
                      THEN (IF kind[t] = "msg" THEN "Response sent to Claude"
                            ELSE "Sent response(s)!")
                      ELSE (IF kind[t] = "msg"
                            THEN "Failed to send response - check tmux session"
                            ELSE "Failed to send - check tmux"))
    /\ resp' = Set(resp, t, <<>>)
    /\ idx' = Set(idx, t, 0)
    /\ sent' = Set(sent, t, <<>>)
    /\ ok' = Set(ok, t, FALSE)
    /\ failed' = Set(failed, t, FALSE)
    /\ UNCHANGED <<clock, pending, message_id_map, http, updates, unlocked>>

\* The handler function returns; the worker thread takes the next update.
handler_return(t) ==
    /\ pc[t] = "done"
    /\ pc' = Set(pc, t, "idle")
    /\ reply' = Set(reply, t, "-")
    /\ UNCHANGED <<clock, storeVars, http, updates, kind, tgt, resp, idx, sent, ok,
                   failed, unlocked>>

\* Mutant of responses_from: a sub-question without a selection contributes
\* its first option.
RECURSIVE responses_from_default(_, _, _)
responses_from_default(questions, answers, q_idx) ==
    IF q_idx >= Len(questions) THEN <<>>
    ELSE IF q_idx \in DOMAIN answers
         THEN <<answers[q_idx]>> \o responses_from_default(questions, answers, q_idx + 1)
         ELSE <<questions[q_idx + 1][1]>>
              \o responses_from_default(questions, answers, q_idx + 1)

\* handle_callback's loop "Get answers in order": for q_idx in
\* range(len(questions)), append answers[q_idx] if q_idx is a key.
RECURSIVE responses_from(_, _, _)
responses_from(questions, answers, q_idx) ==
    IF q_idx >= Len(questions) THEN <<>>
    ELSE IF q_idx \in DOMAIN answers
         THEN <<answers[q_idx]>> \o responses_from(questions, answers, q_idx + 1)
         ELSE responses_from(questions, answers, q_idx + 1)

\* Mutant of callback_gate: the test of `answered` is forgotten.
callback_gate_no_answered(p) == IF p = None THEN "Question expired" ELSE ""

\* handle_callback's two early returns: the answer sent when the click is
\* refused, "" when it goes on.
callback_gate(p) ==
    IF p = None THEN "Question expired"
    ELSE IF heap[p].answered THEN "Already answered"
    ELSE ""

\* handle_callback up to the two early returns: the click is resolved by the
\* message id of the message that carries the button.  A click from another
\* chat matches no handler.
handle_callback(t, authorized, msg_id) ==
    /\ FreeWorker(t)
    /\ Dispatch
    /\ IF ~authorized
       THEN UNCHANGED <<pc, reply, kind, tgt, unlocked>>
       ELSE LET p == get_by_message_id(msg_id) IN
            /\ unlocked' = unlocked \cup (IF p # None THEN {"answered"} ELSE {})
            /\ IF callback_gate(p) # ""
               THEN Acknowledge(t, callback_gate(p))
               ELSE /\ pc' = Set(pc, t, "act")
                    /\ kind' = Set(kind, t, "cb")
                    /\ tgt' = Set(tgt, t, p)
                    /\ UNCHANGED reply
    /\ UNCHANGED <<clock, storeVars, http, resp, idx, sent, ok, failed>>

\* Mutant of nothing_selected: the test of the empty selections is forgotten.
nothing_selected_never(answers) == FALSE

\* "if not pending.answers": no selection has been recorded.
nothing_selected(answers) == answers = EmptyMap

\* The "submit" branch of handle_callback.
callback_submit(t) ==
    LET q == heap[tgt[t]]
        responses == responses_from(q.questions, q.answers, 0)
    IN /\ IF nothing_selected(q.answers)
          THEN /\ Acknowledge(t, "Select at least one answer first")
               /\ UNCHANGED <<resp, sent, idx, ok>>
          ELSE IF responses = <<>>
          THEN /\ Acknowledge(t, "No answers selected")
               /\ UNCHANGED <<resp, sent, idx, ok>>
          ELSE /\ enter_inject(t, q.tmux_location, responses)
               /\ UNCHANGED <<reply, kind, tgt>>
       /\ UNCHANGED heap

\* f"Selected: {answer[:20]}", the labels of the model being short.
SelectedReply(answer) == "Selected: " \o answer

\* Mutant of record_selection: a sub-question keeps its first selection.
record_selection_keep_first(answers, q_idx, answer) ==
    IF q_idx \in DOMAIN answers THEN answers ELSE Put(answers, q_idx, answer)

\* pending.answers[q_idx] = answer
record_selection(answers, q_idx, answer) == Put(answers, q_idx, answer)

\* The "ans_<q_idx>_<opt_idx>" branch of handle_callback, the indices parsed.
callback_answer(t, q_idx, opt_idx) ==
    LET q == heap[tgt[t]] IN
    /\ IF ~PyValid(q.questions, q_idx)
       THEN Acknowledge(t, "Error processing response") /\ UNCHANGED heap
       ELSE LET options == PyAt(q.questions, q_idx) IN
            IF opt_idx < Len(options)
            THEN IF ~PyValid(options, opt_idx)
                 THEN Acknowledge(t, "Error processing response") /\ UNCHANGED heap
                 ELSE /\ heap' = [heap EXCEPT ![tgt[t]].answers =
                                     record_selection(@, q_idx, PyAt(options, opt_idx))]
                      /\ Acknowledge(t, SelectedReply(PyAt(options, opt_idx)))
            ELSE Acknowledge(t, "Invalid option") /\ UNCHANGED heap
    /\ UNCHANGED <<resp, sent, idx, ok>>

\* The fields the try block reads or writes on the object `pending`, which
\* it holds without the lock: a submit reads pending.answers, a selection
\* that reaches "pending.answers[q_idx] = answer" writes it.
callback_accesses(q, d) ==
    IF d.kind = "submit" THEN {"answers"}
    ELSE IF /\ d.kind = "ans"
            /\ PyValid(q.questions, d.q)
            /\ d.o < Len(PyAt(q.questions, d.q))
            /\ PyValid(PyAt(q.questions, d.q), d.o)
         THEN {"answers"}
         ELSE {}

\* handle_callback's try block on call.data.  The click's data d is first
\* read here, so it is drawn here.
callback_act(t, d) ==
    /\ pc[t] = "act"
    /\ unlocked' = unlocked \cup callback_accesses(heap[tgt[t]], d)
    /\ CASE d.kind = "submit" -> callback_submit(t)
         [] d.kind = "ans" -> callback_answer(t, d.q, d.o)
         [] d.kind = "bad" ->
                /\ Acknowledge(t, "Error processing response")
                /\ UNCHANGED <<heap, resp, sent, idx, ok>>
         [] OTHER ->
                /\ Acknowledge(t, "Unknown action")
                /\ UNCHANGED <<heap, resp, sent, idx, ok>>
    /\ UNCHANGED <<clock, pending, message_id_map, http, updates, failed>>

\* ----------------------------------------------------------- specification
Next ==
    \/ Tick
    \/ \E r \in NotifyRequests : handle_notify(r[1], r[2], r[3])
    \/ \E loc \in StopRequests : handle_stop(loc)
    \/ \E delivered \in BOOLEAN : send_and_store(delivered)
    \/ cleanup_worker
    \/ \E t \in Handlers, authorized \in BOOLEAN, ref \in Refs \cup {NoRef},
          text \in Texts : handle_message(t, authorized, ref, text)
    \/ \E t \in Handlers : message_fallback(t)
    \/ \E t \in Handlers, success \in BOOLEAN : inject_response_to_tmux(t, success)
    \/ \E t \in Handlers, authorized \in BOOLEAN, msg_id \in Refs :
          handle_callback(t, authorized, msg_id)
    \/ \E t \in Handlers, d \in CallbackData : callback_act(t, d)
    \/ \E t \in Handlers, success \in BOOLEAN :
          inject_multiple_responses_to_tmux(t, success)
    \/ \E t \in Handlers : handler_finish(t)
    \/ \E t \in Handlers : handler_return(t)

Spec == Init /\ [][Next]_vars

\* The clock advances and the cleanup worker, a daemon thread that loops
\* forever over sleep and cleanup_old, gets to run.
FairSpec == Spec /\ WF_vars(Tick) /\ WF_vars(cleanup_worker)

\* ------------------------------------------------------------------ claims
\* The live entries: the objects the pending dict holds.
Live == DictValues(pending)

Unanswered == {o \in Live : ~heap[o].answered}

Objects == 1..Len(heap)

\* The entry of the store under the question_id of handler t's target.
MarkTarget(t) == DictGet(pending, heap[tgt[t]].question_id)

\* Handler t is about to act on the return value of its injection.
Finishing(t) == pc[t] = "ret"

\* C1: every entry is created with answered = FALSE; no step turns an
\* entry's answered from TRUE to FALSE; and a handler whose mark_answered
\* call finds the entry already answered leaves the whole store unchanged.
C1_AnsweredOnlyRises ==
    [][/\ \A o \in Objects : heap[o].answered => heap'[o].answered
       /\ \A o \in (Len(heap) + 1)..Len(heap') : ~heap'[o].answered
       /\ \A t \in Handlers :
             (/\ Finishing(t) /\ ok[t] /\ pc'[t] = "done"
              /\ MarkTarget(t) # None
              /\ heap[MarkTarget(t)].answered)
             => UNCHANGED storeVars]_vars

\* C1 witness: a handler whose injection succeeded is about to call
\* mark_answered on an entry that another handler already marked.
C1_Witness ==
    \E t \in Handlers :
        /\ Finishing(t) /\ ok[t]
        /\ MarkTarget(t) # None
        /\ heap[MarkTarget(t)].answered

\* C2: every registration produces a question_id different from that of
\* every other registration of the run (so add_question overwrites no entry).
C2_UniqueQuestionIds ==
    \A i, j \in Objects : i # j => heap[i].question_id # heap[j].question_id

\* C3: get_latest_unanswered returns an unanswered live entry whose timestamp
\* is >= that of every unanswered live entry, and None exactly when there is
\* no unanswered live entry.
C3_LatestUnanswered ==
    LET r == get_latest_unanswered IN
    IF Unanswered = {} THEN r = None
    ELSE /\ r \in Unanswered
         /\ \A o \in Unanswered : heap[r].timestamp >= heap[o].timestamp

\* C3 witness: two unanswered entries with different timestamps, the result
\* being the later one, beside which the first entry of the dict is older.
C3_Witness ==
    /\ Cardinality(Unanswered) = 2
    /\ \E o \in Unanswered :
          heap[o].timestamp < heap[get_latest_unanswered].timestamp

\* The entries a sweep at the current time must remove.
Expired == {o \in Live : clock - heap[o].timestamp > QUESTION_TIMEOUT_SECONDS}

\* C4: a sweep removes exactly the entries whose age exceeds the maximum age,
\* whatever their `answered`; every other entry is unchanged and still found
\* by its message id; a removed entry is found neither by its question_id nor
\* by its message id.
C4_SweepExact ==
    [][cleanup_worker =>
         /\ DictValues(pending') = Live \ Expired
         /\ heap' = heap
         /\ \A o \in Live \ Expired :
               /\ DictGet(pending', heap[o].question_id) = o
               /\ get_by_message_id(heap[o].telegram_message_id)' = o
         /\ \A o \in Expired :
               /\ DictGet(pending', heap[o].question_id) = None
               /\ get_by_message_id(heap[o].telegram_message_id)' = None]_vars

\* C4 witness: a sweep has removed an entry (only a sweep deletes message
\* ids), and an answered entry too young to be removed is in the store.
C4_Witness ==
    /\ \E o \in Objects \ Live : heap[o].telegram_message_id \notin DOMAIN message_id_map
    /\ \E o \in Live \ Expired : heap[o].answered

\* C5: for a typed reply from the authorized sender the target is the entry
\* get_by_message_id finds for the replied-to message, if there is one and it
\* is not answered; otherwise the second resolution is made, whose target is
\* a latest unanswered entry; when there is none the handler answers "No
\* pending questions", and changes neither the store nor any keystroke log.
C5_ReplyResolution ==
    [][/\ \A t \in Handlers, ref \in Refs \cup {NoRef}, text \in Texts :
             handle_message(t, TRUE, ref, text) =>
                LET p == IF ref = NoRef THEN None ELSE get_by_message_id(ref) IN
                IF p # None /\ ~heap[p].answered
                THEN /\ tgt'[t] = p
                     /\ pc'[t] \in {"probe", "ret"}
                     /\ resp'[t] = <<Strip(text)>>
                ELSE /\ pc'[t] = "fallback"
                     /\ tgt'[t] = None
                     /\ UNCHANGED <<storeVars, sent>>
       /\ \A t \in Handlers :
             message_fallback(t) =>
                IF Unanswered # {}
                THEN /\ tgt'[t] \in Unanswered
                     /\ \A o \in Unanswered :
                           heap[tgt'[t]].timestamp >= heap[o].timestamp
                     /\ pc'[t] \in {"probe", "ret"}
                ELSE /\ pc'[t] = "done"
                     /\ reply'[t] = "No pending questions from Claude"
                     /\ UNCHANGED <<storeVars, sent>>
                     /\ sent[t] = <<>>]_vars

\* C5 witness: a reply's first resolution has failed while the store holds
\* an answered entry and an unanswered one: the second resolution is next.
C5_Witness ==
    \E t \in Handlers :
        /\ pc[t] = "fallback"
        /\ Unanswered # {}
        /\ \E o \in Live : heap[o].answered

SuccessReplies == {"Response sent to Claude", "Sent response(s)!"}

FailureReplies == {"Failed to send response - check tmux session",
                   "Failed to send - check tmux"}

\* C6: a handler that acts on the return value of its injection marks its
\* target's question_id answered when the value is True, and leaves the store
\* unchanged when it is False; and an entry's answered turns TRUE only in
\* the step of a handler whose own injection for that question returned True.
C6_MarkIffSuccess ==
    [][/\ \A t \in Handlers :
             (Finishing(t) /\ pc'[t] = "done") =>
                IF ok[t]
                THEN /\ MarkTarget(t) # None => heap'[MarkTarget(t)].answered
                     /\ reply'[t] \in SuccessReplies
                ELSE /\ UNCHANGED storeVars
                     /\ reply'[t] \in FailureReplies
       /\ \A o \in Objects :
             (~heap[o].answered /\ heap'[o].answered) =>
                \E t \in Handlers :
                    /\ Finishing(t) /\ ok[t] /\ pc'[t] = "done"
                    /\ MarkTarget(t) = o]_vars

\* C6 witness: a handler has reported a failed injection, and the only
\* question ever registered is in the store, still unanswered.
C6_Witness ==
    /\ \E t \in Handlers : pc[t] = "done" /\ reply[t] \in FailureReplies
    /\ Len(heap) = 1
    /\ Unanswered = {1}

\* Handler t is inside an injection routine or holds its return value.
InInjection(t) == pc[t] \in {"probe", "lit", "enter", "final", "ret"}

\* The keystrokes text(r[1]), Enter, ..., text(r[n]), Enter.
Pairs(r) ==
    [i \in 1..(2 * Len(r)) |-> IF i % 2 = 1 THEN Lit(r[(i + 1) \div 2]) ELSE Enter]

\* r lists labels of sub-questions of strictly ascending index.
AscendingLabels(r, questions) ==
    \E f \in [1..Len(r) -> 1..Len(questions)] :
        /\ \A k \in 1..Len(r) : \E j \in 1..Len(questions[f[k]]) :
              r[k] = questions[f[k]][j]
        /\ \A k \in 1..(Len(r) - 1) : f[k] < f[k + 1]

\* C7: the keystrokes of an injection are, in order, each response of the
\* list followed by its own Enter; a successful injection has sent all of
\* them; and the responses of a submit are labels of sub-questions of
\* ascending index.
C7_KeystrokeOrder ==
    \A t \in Handlers :
        InInjection(t) =>
            /\ \A i \in 1..Len(sent[t]) :
                  i <= 2 * Len(resp[t]) => sent[t][i] = Pairs(resp[t])[i]
            /\ (pc[t] = "ret" /\ ok[t]) => Len(sent[t]) >= 2 * Len(resp[t])
            /\ kind[t] = "cb" => AscendingLabels(resp[t], heap[tgt[t]].questions)

\* C7 witness: a submit of two responses has been injected in full.
C7_Witness ==
    \E t \in Handlers :
        /\ kind[t] = "cb" /\ pc[t] = "ret" /\ ok[t]
        /\ Len(resp[t]) = 2

\* C8 as claimed: a successful injection of a one-element list has sent the
\* response and one Enter, nothing more; of a longer list, also a final Enter.
C8_Original ==
    \A t \in Handlers :
        (pc[t] = "ret" /\ ok[t]) =>
            IF Len(resp[t]) = 1
            THEN sent[t] = <<Lit(resp[t][1]), Enter>>
            ELSE sent[t] = Pairs(resp[t]) \o <<Enter>>

\* C8 amended: a successful injection of a typed reply has sent the response
\* and one Enter, nothing more; a successful injection of a submit has sent
\* each response with its Enter and then one final Enter, for every number
\* of responses, one included.
C8_FinalEnterOnSubmit ==
    \A t \in Handlers :
        (pc[t] = "ret" /\ ok[t]) =>
            IF kind[t] = "msg"
            THEN Len(resp[t]) = 1 /\ sent[t] = <<Lit(resp[t][1]), Enter>>
            ELSE Len(resp[t]) >= 1 /\ sent[t] = Pairs(resp[t]) \o <<Enter>>

\* C8 witness: a submit with exactly one selection has been injected: three
\* keystrokes were sent.
C8_Witness ==
    \E t \in Handlers :
        /\ kind[t] = "cb" /\ pc[t] = "ret" /\ ok[t]
        /\ Len(resp[t]) = 1
        /\ Len(sent[t]) = 3

\* s is a prefix of u.
IsPrefix(s, u) == Len(s) <= Len(u) /\ \A i \in 1..Len(s) : s[i] = u[i]

\* C9: the step in which a tmux call fails sends nothing and makes the
\* routine return False; after it the attempt sends nothing more; the probe
\* is made before any keystroke; and keystrokes sent are never taken back.
C9_NothingAfterFailure ==
    [][\A t \in Handlers :
          /\ (failed'[t] /\ ~failed[t]) =>
                /\ sent'[t] = sent[t]
                /\ pc'[t] = "ret" /\ ~ok'[t]
          /\ failed[t] =>
                /\ pc[t] = "ret" /\ ~ok[t]
                /\ sent'[t] = sent[t] \/ pc'[t] = "done"
          /\ pc[t] = "probe" => sent[t] = <<>>
          /\ (InInjection(t) /\ pc'[t] # "done") => IsPrefix(sent[t], sent'[t])]_vars

\* C9 witness: a submit of two responses failed after its first response and
\* before its last keystroke.
C9_Witness ==
    \E t \in Handlers :
        /\ failed[t] /\ pc[t] = "ret"
        /\ Len(resp[t]) = 2
        /\ Len(sent[t]) \in 1..4

\* The selected labels of entry q by ascending sub-question index: one
\* element for each index of q.questions that is a key of q.answers.
Selected(q) ==
    LET S == {i \in 0..(Len(q.questions) - 1) : i \in DOMAIN q.answers}
        kth(k) == CHOOSE i \in S : Cardinality({j \in S : j < i}) = k - 1
    IN [k \in 1..Cardinality(S) |-> q.answers[kth(k)]]

\* C10: the response list a submit hands to the injection is the selected
\* labels by ascending sub-question index, one per sub-question that has a
\* selection and nothing for the others.
C10_ResponsesByIndex ==
    [][\A t \in Handlers :
          (pc[t] = "act" /\ pc'[t] \in {"probe", "ret"}) =>
              resp'[t] = Selected(heap[tgt[t]])]_vars

\* C10 witness: a submit has built a list of two responses and entered the
\* injection.
C10_Witness ==
    \E t \in Handlers :
        /\ kind[t] = "cb" /\ pc[t] = "probe"
        /\ Len(resp[t]) = 2

\* The keys of q.answers that are indices of sub-questions of q.
ValidKeys(q) == {i \in 0..(Len(q.questions) - 1) : i \in DOMAIN q.answers}

\* C11: a valid selection (q_idx, opt_idx) stores that option's label under
\* q_idx, replacing the label stored there, and changes no other index; the
\* selections change in no other step; and a submit hands to the injection
\* one response for each selected sub-question, the label stored for it.
C11_ReselectOverwrites ==
    [][\A t \in Handlers :
          /\ \A d \in CallbackData :
                (/\ d.kind = "ans"
                 /\ pc[t] = "act"
                 /\ d.q \in 0..(Len(heap[tgt[t]].questions) - 1)
                 /\ d.o \in 0..(Len(heap[tgt[t]].questions[d.q + 1]) - 1)
                 /\ callback_act(t, d))
                => LET old == heap[tgt[t]].answers
                       new == heap'[tgt[t]].answers
                   IN /\ DOMAIN new = DOMAIN old \cup {d.q}
                      /\ new[d.q] = heap[tgt[t]].questions[d.q + 1][d.o + 1]
                      /\ \A i \in DOMAIN old \ {d.q} : new[i] = old[i]
          /\ (pc[t] = "act" /\ pc'[t] \in {"probe", "ret"})
                => LET q == heap[tgt[t]] IN
                   /\ Len(resp'[t]) = Cardinality(ValidKeys(q))
                   /\ \A i \in ValidKeys(q) :
                         \E k \in 1..Len(resp'[t]) : resp'[t][k] = q.answers[i]
          /\ \A o \in Objects :
                heap'[o].answers # heap[o].answers
                => \E u \in Handlers : pc[u] = "act" /\ tgt[u] = o]_vars

\* C11 witness: two clicks on the only question selected "A" and then "B",
\* or "B" and then "A", for its first sub-question, which holds one label.
C11_Witness ==
    /\ Len(heap) = 1
    /\ \E t, u \in Handlers :
          /\ pc[t] = "done" /\ reply[t] = "Selected: A"
          /\ pc[u] = "done" /\ reply[u] = "Selected: B"
    /\ DOMAIN heap[1].answers = {0}

\* C12: a selection is recorded only for 0 <= q_idx < len(questions) and
\* 0 <= opt_idx < len(options); so in every reachable state every key of an
\* entry's selections is an index of one of its sub-questions.
C12_SelectionKeysValid ==
    \A o \in Objects :
        DOMAIN heap[o].answers \subseteq 0..(Len(heap[o].questions) - 1)

Submit == [kind |-> "submit", q |-> 0, o |-> 0]

\* C13: a submit click on a question without any selection is rejected with
\* "Select at least one answer first": no injection is entered, no entry is
\* marked answered, and the store is unchanged.
C13_EmptySubmitRejected ==
    [][\A t \in Handlers :
          (/\ pc[t] = "act"
           /\ DOMAIN heap[tgt[t]].answers = {}
           /\ callback_act(t, Submit))
          => /\ pc'[t] = "done"
             /\ reply'[t] = "Select at least one answer first"
             /\ UNCHANGED <<storeVars, sent>>]_vars

\* C13 witness: a submit click was rejected for want of a selection while
\* its question is in the store, unanswered and without selections.
C13_Witness ==
    /\ \E t \in Handlers :
          pc[t] = "done" /\ reply[t] = "Select at least one answer first"
    /\ \E o \in Unanswered : DOMAIN heap[o].answers = {}

\* The message ids of the questions ever registered.
Issued == {heap[o].telegram_message_id : o \in Objects}

\* The entries a sweep has removed: not in the store, their message id
\* deleted from the reverse index.
Swept == {o \in Objects \ Live : heap[o].telegram_message_id \notin DOMAIN message_id_map}

\* C14: a click whose message id resolves to no entry is answered "Question
\* expired", one that resolves to an answered entry "Already answered"; in
\* both cases the handler ends there, the store and the keystroke logs
\* unchanged.  A message id never issued resolves to no entry, and so does,
\* from the sweep on, the message id of an entry the sweep removed.
C14_ExpiredOrAnswered ==
    [][/\ \A t \in Handlers, msg_id \in Refs :
             handle_callback(t, TRUE, msg_id) =>
                LET p == get_by_message_id(msg_id) IN
                /\ p = None =>
                      /\ reply'[t] = "Question expired"
                      /\ pc'[t] = "done"
                      /\ UNCHANGED <<storeVars, sent>>
                /\ (p # None /\ heap[p].answered) =>
                      /\ reply'[t] = "Already answered"
                      /\ pc'[t] = "done"
                      /\ UNCHANGED <<storeVars, sent>>
       /\ \A ref \in Refs \ Issued : get_by_message_id(ref) = None
       /\ cleanup_worker =>
             \A o \in Live \ DictValues(pending') :
                 get_by_message_id(heap[o].telegram_message_id)' = None
       /\ \A o \in Swept :
             get_by_message_id(heap[o].telegram_message_id)' = None]_vars

\* C14 witness: a click on the message of a question the sweep has removed
\* was answered "Question expired".
C14_Witness ==
    /\ \E t \in Handlers : pc[t] = "done" /\ reply[t] = "Question expired"
    /\ Swept # {}
    /\ Len(heap) = 1

\* C15: a typed message or a click from a sender other than the configured
\* chat changes nothing of the store (no selection, no entry marked answered)
\* and starts no injection: the handler, if one runs at all, only refuses.
C15_UnauthorizedNoEffect ==
    [][\A t \in Handlers :
          /\ \A ref \in Refs \cup {NoRef}, text \in Texts :
                handle_message(t, FALSE, ref, text) =>
                   /\ UNCHANGED <<storeVars, sent, resp, tgt>>
                   /\ pc'[t] = "done"
                   /\ reply'[t] = "Unauthorized. This bot is private."
          /\ \A msg_id \in Refs :
                handle_callback(t, FALSE, msg_id) =>
                   UNCHANGED <<storeVars, sent, resp, tgt, pc>>]_vars

\* C15 witness: a message from another chat was refused while a question
\* that it could have answered is in the store, still unanswered.
C15_Witness ==
    /\ \E t \in Handlers :
          pc[t] = "done" /\ reply[t] = "Unauthorized. This bot is private."
    /\ \E o \in Unanswered : heap[o].tmux_location # "unknown"

\* The live entries whose external reference (message id) is ref.
LiveWithRef(ref) == {o \in Live : heap[o].telegram_message_id = ref}

\* C16: no two live entries have the same external reference, and
\* get_by_message_id(ref) is the live entry whose external reference is ref,
\* None when there is no such entry.
C16_ExactReverseLookup ==
    /\ \A ref \in Refs : Cardinality(LiveWithRef(ref)) <= 1
    /\ \A ref \in Refs :
          IF LiveWithRef(ref) = {}
          THEN get_by_message_id(ref) = None
          ELSE get_by_message_id(ref) \in LiveWithRef(ref)

\* Entry o is in the store and its age can exceed the maximum age before the
\* clock of the model stops at MaxTime.
CanExpire(o) ==
    /\ o \in Live
    /\ heap[o].timestamp + QUESTION_TIMEOUT_SECONDS < MaxTime

\* C17: with the clock advancing and the cleanup worker running, every
\* entry in the store is eventually out of the store, answered or not; and
\* a sweep skips no entry older than the maximum age, answered or not.
C17_EventuallyRemoved ==
    /\ \A o \in 1..MaxReg : CanExpire(o) ~> (o \notin Live)
    /\ [][cleanup_worker =>
             \A o \in Live :
                 (clock - heap[o].timestamp > QUESTION_TIMEOUT_SECONDS)
                 => o \notin DictValues(pending')]_vars

\* C17 witness: the sweep has removed an answered entry and an entry that
\* was never answered.
C17_Witness ==
    /\ \E o \in Swept : heap[o].answered
    /\ \E o \in Swept : ~heap[o].answered

\* Handler t is running an injection sequence: it has made tmux calls.
Injecting(t) == pc[t] \in {"probe", "lit", "enter", "final"}

\* The step in which handler t tests `answered` of the entry it resolved
\* and goes on: a typed reply enters the injection, a click reads call.data.
PassesCheck(t) ==
    \/ pc[t] \in {"idle", "fallback"} /\ pc'[t] \in {"probe", "ret"}
    \/ pc[t] = "idle" /\ pc'[t] = "act"

\* C18: the test of `answered` and mark_answered are different steps with
\* the injection between them: the step that passes the test finds its
\* target unanswered and marks nothing, and an entry is marked only by a
\* handler whose injection has returned.  (Two handlers can therefore
\* both pass the test for one question and both inject: the witness.)
C18_CheckAndMarkApart ==
    [][/\ \A t \in Handlers :
             PassesCheck(t) =>
                /\ ~heap[tgt'[t]].answered
                /\ heap' = heap
       /\ \A o \in Objects :
             (heap'[o].answered # heap[o].answered) =>
                \E t \in Handlers :
                    pc[t] = "ret" /\ heap[tgt[t]].question_id = heap[o].question_id]_vars

\* C18 witness: two handlers are both in the middle of an injection
\* sequence for the same question, each having sent keystrokes.
C18_Witness ==
    \E t, u \in Handlers :
        /\ t # u
        /\ Injecting(t) /\ Injecting(u)
        /\ tgt[t] = tgt[u]
        /\ sent[t] # <<>> /\ sent[u] # <<>>

\* C19: the selections of a question change in no step taken after the
\* question's answered became true or after the sweep removed the question.
C19_NoSelectionAfterEnd ==
    [][\A o \in Objects :
          (heap[o].answered \/ o \in Swept) =>
              heap'[o].answers = heap[o].answers]_vars

\* C20: every read and write of an entry's `answered` flag and selections
\* is made while the store lock is held: no handler has read or written
\* either field outside a SessionStore method.  (The claim's other half,
\* that the lock is not held during a Telegram or tmux call, is true of the
\* model by the shape of its steps: a SessionStore method is one step that
\* makes no such call.)
C20_LockDiscipline == unlocked = {}

\* C21: the reverse index and the pending dict agree: every key ref of
\* _message_id_map maps to a question_id that is a key of pending and whose
\* entry has message id ref, and the message id of every live entry is a key
\* of _message_id_map that maps to the entry's question_id.
C21_IndexAgrees ==
    /\ \A ref \in DOMAIN message_id_map :
          /\ message_id_map[ref] \in DictKeys(pending)
          /\ heap[DictGet(pending, message_id_map[ref])].telegram_message_id = ref
    /\ \A o \in Live :
          /\ heap[o].telegram_message_id \in DOMAIN message_id_map
          /\ message_id_map[heap[o].telegram_message_id] = heap[o].question_id

\* The step in which handler t calls an injection routine, and the step in
\* which the routine sends its first keystroke.
StartsInjection(t) ==
    \/ ~Injecting(t) /\ pc'[t] = "probe"
    \/ Injecting(t) /\ sent[t] = <<>> /\ sent'[t] # <<>>

\* C22: no handler starts an injection for a question that the sweep has
\* already removed from the store.
C22_NoInjectionAfterSweep ==
    [][\A t \in Handlers :
          StartsInjection(t) => tgt'[t] \notin Swept]_vars
====
